---- MODULE Spec2Model ----
(***************************************************************************)
(* Segment workflow of the video-creator backend: the project and segment  *)
(* rows, the files of the storage directories, and one action per HTTP     *)
(* handler / service operation of ai-video-creator-backend/app.            *)
(*                                                                         *)
(* One project of NumSegments segments, owned by the calling user.  Every  *)
(* handler runs in a request-scoped session (get_db_session): what it      *)
(* writes is committed when it returns and rolled back when it raises.     *)
(* File writes are not transactional.                                      *)
(***************************************************************************)
EXTENDS Integers, Sequences, FiniteSets, TLC

\* ---------------------------------------------------------------- bounds
NumSegments == 2        \* segments of the project (segment_count)
MaxTasks == 2           \* external video tasks created in one behaviour

MaxSkew == 12           \* audio and video differ by at most MaxSkew hundredths
VideoJitter == 2        \* a video differs from segment_len_sec by at most this

SegIdx == 0 .. (NumSegments - 1)

\* ------------------------------------------------------- values and enums
NULL == <<>>            \* None / NULL column
NoTask == 0             \* video_task_id IS NULL

\* app/models/project.py: segmentDurationSec is validated to 6 .. 10 seconds,
\* target_duration_sec to 6 .. 60 seconds; an update leaves out (None) what it
\* does not change.
MinSegmentLen == 6
MaxSegmentLen == 10
NotGiven == 0

\* app/db/models/segment.py SegmentStatus
SegmentStatus ==
  {"pending", "prompt_ready", "approved", "generating", "generated",
   "segment_approved", "failed"}

\* app/db/models/project.py ProjectStatus
ProjectStatus ==
  {"draft", "planned", "created", "media_uploaded", "voice_cloning",
   "plan_generating", "plan_ready", "generating", "finalizing", "completed",
   "failed"}

\* The voice id clone_voice derives from the project id: f"voice-{project_id[:8]}"
ProjectVoiceId == <<"voice-", "p">>

\* URL columns are <<prefix, name, id>>, file paths are <<directory, name, id>>.
VideoUrl(s) == <<"/output/", "video", s>>
AudioUrl(s) == <<"/output/", "audio", s>>
LastFrameUrl(s) == <<"/temp/", "last_frame", s>>
FirstFrameUrl(s) == <<"/temp/", "first_frame", s>>
UploadedFrameUrl == <<"/uploads/", "first_frame", 0>>
UploadedAudioUrl == <<"/uploads/", "audio_sample", 0>>
FinalUrl == <<"/output/", "final", 0>>

\* services/media_service.py url_to_file_path
url_to_file_path(url) ==
  IF url[1] = "/output/" THEN <<"storage/output", url[2], url[3]>>
  ELSE IF url[1] = "/temp/" THEN <<"storage/temp", url[2], url[3]>>
  ELSE IF url[1] = "/uploads/" THEN <<"storage/uploads", url[2], url[3]>>
  ELSE url

\* Mutant: every segment is muxed into the same temporary file.
MuxedPath_shared(s) == <<"storage/temp", "muxed", 0>>

MuxedPath(s) == <<"storage/temp", "muxed", s>>
FinalPath == <<"storage/output", "final", 0>>

\* ------------------------------------------------------------------ state
VARIABLES
  project,    \* the Project row (committed)
  segs,       \* the Segment rows by index (committed)
  voices,     \* voice_id values of the rows of the voices table
  files,      \* storage: file path -> content
  nextTask,   \* number of external video tasks created so far
  last,       \* the last request: operation, segment, response, outcome of
              \* the external calls, external capabilities invoked
  inflight    \* requests suspended at an await, with what they hold

vars == <<project, segs, voices, files, nextTask, last, inflight>>

Exists(path) == path \in DOMAIN files

WriteFile(fs, path, content) ==
  [p \in (DOMAIN fs) \cup {path} |-> IF p = path THEN content ELSE fs[p]]

RemoveFiles(fs, paths) ==
  [p \in (DOMAIN fs) \ paths |-> fs[p]]

\* The row of the session: project and segments together.
Rows(p, s) == [project |-> p, segs |-> s]

\* Mutant: the session is committed whether or not the handler raised.
get_db_session_always_commit(raised, before, after) == after

\* Mutant: a rollback that misses the Project row.
get_db_session_keeps_project(raised, before, after) ==
  IF raised THEN [before EXCEPT !.project = after.project] ELSE after

\* db/session.py get_db_session: commit when the handler returns, roll back
\* when it raises.
get_db_session(raised, before, after) ==
  IF raised THEN before ELSE after

Response(op, seg, out, env, ext) ==
  [op |-> op, seg |-> seg, out |-> out, env |-> env, ext |-> ext]

\* services/project_service.py create_project: status CREATED, segment_count
\* empty PENDING segments, indices 0 .. segment_count-1.
NewSegment ==
  [status |-> "pending", approved |-> FALSE,
   video_prompt |-> NULL, narration_text |-> NULL, end_frame_prompt |-> NULL,
   first_frame_url |-> NULL, last_frame_url |-> NULL,
   video_url |-> NULL, audio_url |-> NULL,
   video_task_id |-> NoTask, audio_task_id |-> NoTask]

NewProject ==
  [status |-> "created", story_prompt |-> NULL, voice_id |-> NULL,
   first_frame_url |-> NULL, audio_sample_url |-> NULL,
   final_video_url |-> NULL,
   target_duration_sec |-> NumSegments * MinSegmentLen,
   segment_len_sec |-> MinSegmentLen,
   segment_count |-> (NumSegments * MinSegmentLen) \div MinSegmentLen]

\* ------------------------------------------------------------ project update
\* The durations and story prompts a caller sends with an update.
TargetDurations == { MinSegmentLen * k : k \in 1 .. (NumSegments + 1) }
SegmentLens == {MinSegmentLen, MaxSegmentLen}
EditedStory == <<"edited story">>

\* services/project_service.py update_project with its caller
\* api/v1/projects.py update_project (the project's name is not part of the
\* state).  story = NULL, target = NotGiven, len = NotGiven: field not sent.
update_project(story, target, len) ==
  LET p1 == IF story # NULL THEN [project EXCEPT !.story_prompt = story]
            ELSE project
      p2 == IF target # NotGiven THEN [p1 EXCEPT !.target_duration_sec = target]
            ELSE p1
      p3 == IF len # NotGiven THEN [p2 EXCEPT !.segment_len_sec = len] ELSE p2
      p4 == IF target # NotGiven \/ len # NotGiven
            THEN [p3 EXCEPT !.segment_count =
                              p3.target_duration_sec \div p3.segment_len_sec]
            ELSE p3
  IN /\ project' = p4
     /\ last' = Response("update_project", -1, "200", "none", {})
     /\ UNCHANGED <<segs, voices, files, nextTask, inflight>>

Init ==
  /\ project = NewProject
  /\ segs = [i \in SegIdx |-> NewSegment]
  /\ voices = {}
  /\ files = <<>>
  /\ nextTask = 0
  /\ inflight = {}
  /\ last = Response("create_project", -1, "201", "none", {})

\* ---------------------------------------------------------- media uploads
\* api/v1/media.py upload_first_frame
upload_first_frame ==
  /\ project' = [project EXCEPT !.first_frame_url = UploadedFrameUrl]
  /\ files' = WriteFile(files, url_to_file_path(UploadedFrameUrl), <<"image">>)
  /\ last' = Response("upload_first_frame", -1, "200", "none", {})
  /\ UNCHANGED <<segs, voices, nextTask, inflight>>

\* api/v1/media.py upload_audio_sample
upload_audio_sample ==
  LET p1 == [project EXCEPT !.audio_sample_url = UploadedAudioUrl]
      p2 == IF p1.first_frame_url # NULL /\ p1.audio_sample_url # NULL
            THEN [p1 EXCEPT !.status = "media_uploaded"]
            ELSE p1
  IN /\ project' = p2
     /\ files' = WriteFile(files, url_to_file_path(UploadedAudioUrl), <<"sample">>)
     /\ last' = Response("upload_audio_sample", -1, "200", "none", {})
     /\ UNCHANGED <<segs, voices, nextTask, inflight>>

\* ------------------------------------------------------ segment approvals
\* Mutant: approve_segment without the PROMPT_READY guard.
approve_segment_unguarded(s) ==
  /\ segs' = [segs EXCEPT ![s].approved = TRUE, ![s].status = "approved"]
  /\ last' = Response("approve_segment", s, "200", "none", {})
  /\ UNCHANGED <<project, voices, files, nextTask, inflight>>

\* api/v1/segments.py approve_segment
approve_segment(s) ==
  IF segs[s].status # "prompt_ready"
  THEN /\ last' = Response("approve_segment", s, "400", "none", {})
       /\ UNCHANGED <<project, segs, voices, files, nextTask, inflight>>
  ELSE /\ segs' = [segs EXCEPT ![s].approved = TRUE, ![s].status = "approved"]
       /\ last' = Response("approve_segment", s, "200", "none", {})
       /\ UNCHANGED <<project, voices, files, nextTask, inflight>>

\* api/v1/segments.py approve_generated_video
approve_generated_video(s) ==
  IF segs[s].status # "generated"
  THEN /\ last' = Response("approve_generated_video", s, "400", "none", {})
       /\ UNCHANGED <<project, segs, voices, files, nextTask, inflight>>
  ELSE /\ segs' = [segs EXCEPT ![s].status = "segment_approved"]
       /\ last' = Response("approve_generated_video", s, "200", "none", {})
       /\ UNCHANGED <<project, voices, files, nextTask, inflight>>

\* Mutant: request_regenerate that also drops the audio of the segment.
request_regenerate_clears_audio(s) ==
  /\ segs' = [segs EXCEPT ![s].status = "approved",
                          ![s].video_url = NULL,
                          ![s].video_task_id = NoTask,
                          ![s].audio_url = NULL]
  /\ last' = Response("request_regenerate", s, "200", "none", {})
  /\ UNCHANGED <<project, voices, files, nextTask, inflight>>

\* Mutant: request_regenerate that keeps the video-task handle.
request_regenerate_keeps_task(s) ==
  /\ segs' = [segs EXCEPT ![s].status = "approved", ![s].video_url = NULL]
  /\ last' = Response("request_regenerate", s, "200", "none", {})
  /\ UNCHANGED <<project, voices, files, nextTask, inflight>>

\* api/v1/segments.py request_regenerate
request_regenerate(s) ==
  /\ segs' = [segs EXCEPT ![s].status = "approved",
                          ![s].video_url = NULL,
                          ![s].video_task_id = NoTask]
  /\ last' = Response("request_regenerate", s, "200", "none", {})
  /\ UNCHANGED <<project, voices, files, nextTask, inflight>>

\* --------------------------------------------------------- plan generation
Story == <<"story">>

\* agents/plan_generator.py SegmentPrompt, by position in the plan list
SegmentPrompt(i, narrated) ==
  [segment_index |-> i,
   video_prompt |-> <<"video_prompt", i>>,
   narration_text |-> IF narrated THEN <<"narration", i>> ELSE NULL,
   end_frame_prompt |-> <<"end_frame", i>>]

\* agents/plan_generator.py VideoStoryPlan.segments: the lists the plan
\* capability returns here (segment_count narrated entries, as requested).
PlanLists ==
  { [i \in 1 .. NumSegments |-> SegmentPrompt(i - 1, TRUE)] }

\* What the plan capability can return besides the requested list: a dict
\* without segments, the entries in another order than their segment_index,
\* fewer or more entries than the project has segments, dict entries without
\* narration_text.
PlanShapes ==
  PlanLists \cup
  { <<>>,
    [i \in 1 .. NumSegments |-> SegmentPrompt(NumSegments - i, TRUE)],
    [i \in 1 .. (NumSegments - 1) |-> SegmentPrompt(i, TRUE)],
    [i \in 1 .. (NumSegments + 1) |-> SegmentPrompt(i - 1, TRUE)],
    [i \in 1 .. NumSegments |-> SegmentPrompt(i - 1, FALSE)] }

Min(a, b) == IF a < b THEN a ELSE b

\* Mutant: the prompts are written to the segment the entry's own
\* segment_index names instead of by position.
ZipPrompts_by_segment_index(ss, plan) ==
  [i \in SegIdx |->
     IF \E k \in 1 .. Len(plan) : plan[k].segment_index = i
     THEN LET k == CHOOSE k \in 1 .. Len(plan) : plan[k].segment_index = i
          IN [ss[i] EXCEPT !.video_prompt = plan[k].video_prompt,
                           !.narration_text = plan[k].narration_text,
                           !.end_frame_prompt = plan[k].end_frame_prompt,
                           !.status = "prompt_ready"]
     ELSE ss[i]]

\* services/orchestrator_service.py generate_video_plan, lines 139-149:
\* zip(segments, plan_segments) writes the prompts by position.
ZipPrompts(ss, plan) ==
  [i \in SegIdx |->
     IF i < Min(NumSegments, Len(plan))
     THEN [ss[i] EXCEPT !.video_prompt = plan[i + 1].video_prompt,
                        !.narration_text = plan[i + 1].narration_text,
                        !.end_frame_prompt = plan[i + 1].end_frame_prompt,
                        !.status = "prompt_ready"]
     ELSE ss[i]]

\* services/orchestrator_service.py generate_video_plan, lines 154-174: the
\* response carries the entries of the plan (an error response carries none).
VideoPlanResponse(env, plan) ==
  Response("generate_video_plan", -1,
           IF env = "raise" THEN "500"
           ELSE IF env = "invalid" THEN "400" ELSE "200",
           env, {"generate_plan"})
    @@ [segments |-> IF env = "plan" THEN plan ELSE <<>>]

\* Mutant: generate_video_plan that commits the PLAN_GENERATING status and the
\* story prompt before it calls the plan capability.
generate_video_plan_commit_first(env, plan) ==
  LET p1 == [project EXCEPT !.status = "plan_generating",
                            !.story_prompt = Story]
      raised == env \in {"raise", "invalid"}
      after == Rows([p1 EXCEPT !.status = "plan_ready"], ZipPrompts(segs, plan))
      rows == get_db_session(raised, Rows(p1, segs), after)
  IN /\ project' = rows.project
     /\ segs' = rows.segs
     /\ last' = VideoPlanResponse(env, plan)
     /\ UNCHANGED <<voices, files, nextTask, inflight>>

\* services/orchestrator_service.py generate_video_plan with its caller
\* api/v1/generation.py generate_video_plan.  env: "raise" (the capability
\* raises), "invalid" (neither VideoStoryPlan nor dict), "plan".
generate_video_plan(env, plan) ==
  LET before == Rows(project, segs)
      p1 == [project EXCEPT !.status = "plan_generating",
                            !.story_prompt = Story]
      raised == env \in {"raise", "invalid"}
      after == Rows([p1 EXCEPT !.status = "plan_ready"], ZipPrompts(segs, plan))
      rows == get_db_session(raised, before, after)
  IN /\ project' = rows.project
     /\ segs' = rows.segs
     /\ last' = VideoPlanResponse(env, plan)
     /\ UNCHANGED <<voices, files, nextTask, inflight>>

\* ------------------------------------------------------------ voice cloning
\* services/orchestrator_service.py clone_voice with its caller
\* api/v1/generation.py clone_voice.
\*   readable: Path(project.audio_sample_url) exists and can be read;
\*   env: "upload_fail", "clone_fail" or "ok" for the two capability calls;
\*   recommit: whether the commit of the except branch goes through after the
\*             commit of the try branch failed on the unique voice_id.
clone_voice(readable, env, recommit) ==
  IF project.audio_sample_url = NULL \/ ~readable
  THEN /\ last' = Response("clone_voice", -1, "400", "precondition", {})
       /\ UNCHANGED <<project, segs, voices, files, nextTask, inflight>>
  ELSE
    LET cloning == [project EXCEPT !.status = "voice_cloning"]
        reverted == [cloning EXCEPT !.status = "media_uploaded"]
        cloned == [cloning EXCEPT !.voice_id = ProjectVoiceId,
                                  !.status = "media_uploaded"]
        ext == IF env = "upload_fail" THEN {"upload_file"}
               ELSE {"upload_file", "voice_clone"}
    IN IF env # "ok"
       THEN \* except branch: status reset and committed, ValueError re-raised
            /\ project' = reverted
            /\ last' = Response("clone_voice", -1, "400", env, ext)
            /\ UNCHANGED <<segs, voices, files, nextTask, inflight>>
       ELSE IF ProjectVoiceId \notin voices
       THEN \* Voice row inserted, everything committed
            /\ project' = cloned
            /\ voices' = voices \cup {ProjectVoiceId}
            /\ last' = Response("clone_voice", -1, "200", "ok", ext)
            /\ UNCHANGED <<segs, files, nextTask, inflight>>
       ELSE \* voices.voice_id is unique: the commit fails and the transaction
            \* is rolled back; the except branch then commits the reset
            \* status, or fails too and the request ends rolled back
            /\ project' = IF recommit
                          THEN [project EXCEPT !.status = "media_uploaded"]
                          ELSE project
            /\ last' = Response("clone_voice", -1,
                                IF recommit THEN "400" ELSE "500",
                                "save_fail", ext)
            /\ UNCHANGED <<segs, voices, files, nextTask, inflight>>

\* ------------------------------------------------------- generation dispatch
\* services/orchestrator_service.py url_to_base64_data_url, lines 35-55: the
\* file the first-frame URL is read from.
FrameFilePath(url) ==
  IF url[1] = "/uploads/" THEN <<"storage/uploads", url[2], url[3]>>
  ELSE IF url[1] = "/output/" THEN <<"storage/output", url[2], url[3]>>
  ELSE IF url[1] = "/temp/" THEN <<"storage/temp", url[2], url[3]>>
  ELSE url

\* segment.first_frame_url or project.first_frame_url
ResolveFirstFrame(p, seg) ==
  IF seg.first_frame_url # NULL THEN seg.first_frame_url ELSE p.first_frame_url

\* project.voice_id and segment.narration_text
AudioWanted(p, seg) == p.voice_id # NULL /\ seg.narration_text # NULL

\* Mutant: a failed text-to-speech call clears the audio reference.
_generate_segment_audio_clears(ss, s, env) ==
  IF env = "ok" THEN [ss EXCEPT ![s].audio_url = AudioUrl(s)]
  ELSE [ss EXCEPT ![s].audio_url = NULL]

\* services/orchestrator_service.py _generate_segment_audio: the audio
\* reference is written when text_to_audio returned; every exception is caught.
_generate_segment_audio(ss, s, env) ==
  IF env = "ok" THEN [ss EXCEPT ![s].audio_url = AudioUrl(s)] ELSE ss

\* services/orchestrator_service.py start_segment_generation (with
\* _generate_segment_audio) and its caller api/v1/generation.py
\* generate_segment.  env: "video_fail" (generate_video raises), "tts_fail"
\* (text_to_audio raises), "ok".
start_segment_generation(s, env) ==
  LET before == Rows(project, segs)
      \* lines 300-303
      p1 == [project EXCEPT !.status = "generating"]
      s1 == [segs EXCEPT ![s].status = "generating"]
      frame == ResolveFirstFrame(p1, s1[s])
      noFrame == frame = NULL \/ ~Exists(FrameFilePath(frame))
      task == nextTask + 1
      \* lines 325-326
      s2 == [s1 EXCEPT ![s].video_task_id = task]
      audio == AudioWanted(p1, s2[s])
      \* _generate_segment_audio, lines 354-363
      s3 == IF audio THEN _generate_segment_audio(s2, s, env) ELSE s2
  IN IF ~segs[s].approved
     THEN /\ last' = Response("start_segment_generation", s, "400",
                              "not_approved", {})
          /\ UNCHANGED <<project, segs, voices, files, nextTask, inflight>>
     ELSE IF noFrame
     THEN LET rows == get_db_session(TRUE, before, Rows(p1, s1))
          IN /\ project' = rows.project
             /\ segs' = rows.segs
             /\ last' = Response("start_segment_generation", s, "400",
                                 "no_first_frame", {})
             /\ UNCHANGED <<voices, files, nextTask, inflight>>
     ELSE IF env = "video_fail"
     THEN LET rows == get_db_session(TRUE, before, Rows(p1, s1))
          IN /\ project' = rows.project
             /\ segs' = rows.segs
             /\ last' = Response("start_segment_generation", s, "500",
                                 env, {"generate_video"})
             /\ UNCHANGED <<voices, files, nextTask, inflight>>
     ELSE /\ nextTask < MaxTasks
          /\ env = "tts_fail" => audio
          /\ LET rows == get_db_session(FALSE, before, Rows(p1, s3))
             IN /\ project' = rows.project
                /\ segs' = rows.segs
          /\ nextTask' = task
          /\ files' = IF audio /\ env = "ok"
                      THEN WriteFile(files, url_to_file_path(AudioUrl(s)),
                                     <<"audio", task>>)
                      ELSE files
          /\ last' = Response("start_segment_generation", s, "200", env,
                              IF audio
                              THEN {"generate_video", "text_to_audio"}
                              ELSE {"generate_video"})
          /\ UNCHANGED <<voices, inflight>>

\* ---------------------------------------------------------- completion check
\* Mutant: the next segment's first-frame reference is set without copying
\* the extracted frame to it.
_extract_and_propagate_no_copy(ss, fs, s, env) ==
  LET video_path == url_to_file_path(ss[s].video_url)
      frame_path == url_to_file_path(LastFrameUrl(s))
      fs1 == WriteFile(fs, frame_path, <<"frame", fs[video_path]>>)
      ss1 == [ss EXCEPT ![s].last_frame_url = LastFrameUrl(s)]
      next == s + 1
  IN IF ss[s].video_url = NULL THEN [segs |-> ss, files |-> fs]
     ELSE IF video_path \notin DOMAIN fs THEN [segs |-> ss, files |-> fs]
     ELSE IF env = "extract_fail" THEN [segs |-> ss, files |-> fs]
     ELSE IF next \notin SegIdx THEN [segs |-> ss1, files |-> fs1]
     ELSE IF env = "copy_fail" THEN [segs |-> ss1, files |-> fs1]
     ELSE [segs |-> [ss1 EXCEPT ![next].first_frame_url = FirstFrameUrl(next)],
           files |-> fs1]

\* Mutant: the next segment's first-frame reference is written although the
\* extraction failed.
_extract_and_propagate_despite_failure(ss, fs, s, env) ==
  LET video_path == url_to_file_path(ss[s].video_url)
      frame_path == url_to_file_path(LastFrameUrl(s))
      fs1 == WriteFile(fs, frame_path, <<"frame", fs[video_path]>>)
      ss1 == [ss EXCEPT ![s].last_frame_url = LastFrameUrl(s)]
      next == s + 1
      next_frame_path == url_to_file_path(FirstFrameUrl(next))
  IN IF ss[s].video_url = NULL THEN [segs |-> ss, files |-> fs]
     ELSE IF video_path \notin DOMAIN fs THEN [segs |-> ss, files |-> fs]
     ELSE IF env = "extract_fail"
     THEN [segs |-> IF next \in SegIdx
                    THEN [ss EXCEPT ![next].first_frame_url = FirstFrameUrl(next)]
                    ELSE [ss EXCEPT ![s].last_frame_url = LastFrameUrl(s)],
           files |-> fs]
     ELSE IF next \notin SegIdx THEN [segs |-> ss1, files |-> fs1]
     ELSE IF env = "copy_fail" THEN [segs |-> ss1, files |-> fs1]
     ELSE [segs |-> [ss1 EXCEPT ![next].first_frame_url = FirstFrameUrl(next)],
           files |-> WriteFile(fs1, next_frame_path, fs1[frame_path])]

\* api/v1/segments.py _extract_and_propagate_last_frame.  env "extract_fail":
\* MediaService.extract_last_frame raises; "copy_fail": shutil.copy raises.
\* Every exception is caught; what was assigned before it stays in the session.
\* The result is the pair of segment rows and files.
_extract_and_propagate_last_frame(ss, fs, s, env) ==
  LET video_path == url_to_file_path(ss[s].video_url)
      frame_path == url_to_file_path(LastFrameUrl(s))
      \* integrations/ffmpeg_wrapper.py extract_last_frame: one frame of the video
      fs1 == WriteFile(fs, frame_path, <<"frame", fs[video_path]>>)
      ss1 == [ss EXCEPT ![s].last_frame_url = LastFrameUrl(s)]
      next == s + 1
      next_frame_path == url_to_file_path(FirstFrameUrl(next))
  IN IF ss[s].video_url = NULL THEN [segs |-> ss, files |-> fs]
     ELSE IF video_path \notin DOMAIN fs THEN [segs |-> ss, files |-> fs]
     ELSE IF env = "extract_fail" THEN [segs |-> ss, files |-> fs]
     ELSE IF next \notin SegIdx THEN [segs |-> ss1, files |-> fs1]
     ELSE IF env = "copy_fail" THEN [segs |-> ss1, files |-> fs1]
     ELSE [segs |-> [ss1 EXCEPT ![next].first_frame_url = FirstFrameUrl(next)],
           files |-> WriteFile(fs1, next_frame_path, fs1[frame_path])]

\* Mutant: the segment is polled whenever it has a task handle.
Polled_task_only(seg) ==
  seg.video_task_id # NoTask

\* The segment is polled: video_task_id and not video_url and GENERATING.
Polled(seg) ==
  seg.video_task_id # NoTask /\ seg.video_url = NULL /\ seg.status = "generating"

\* Mutant: the audio reference alone marks a GENERATING segment GENERATED.
MarkGenerated_audio_only(ss, s) ==
  IF ss[s].audio_url # NULL /\ ss[s].status = "generating"
  THEN [ss EXCEPT ![s].status = "generated"]
  ELSE ss

\* lines 231-235: both URLs present and GENERATING -> GENERATED
MarkGenerated(ss, s) ==
  IF ss[s].video_url # NULL /\ ss[s].audio_url # NULL
     /\ ss[s].status = "generating"
  THEN [ss EXCEPT ![s].status = "generated"]
  ELSE ss

CheckEnvs ==
  {"processing", "fail", "query_raise", "download_raise", "extract_fail",
   "copy_fail", "ok"}

\* api/v1/segments.py check_segment_complete.  env is the outcome of the
\* external calls: the task is "processing" or "fail"; query_video_status
\* raises; retrieve_file or the download raises; the video is stored and
\* frame extraction or the copy fails; "ok".
check_segment_complete(s, env) ==
  LET polled == Polled(segs[s])
      stored == polled /\ env \in {"extract_fail", "copy_fail", "ok"}
      \* lines 218-222
      fs1 == IF stored
             THEN WriteFile(files, url_to_file_path(VideoUrl(s)),
                            <<"video", segs[s].video_task_id>>)
             ELSE files
      s1 == IF stored THEN [segs EXCEPT ![s].video_url = VideoUrl(s)] ELSE segs
      prop == IF stored
              THEN _extract_and_propagate_last_frame(s1, fs1, s, env)
              ELSE [segs |-> s1, files |-> fs1]
      ext == IF ~polled THEN {}
             ELSE IF env \in {"processing", "fail", "query_raise"}
             THEN {"query_video_status"}
             ELSE IF env = "download_raise"
             THEN {"query_video_status", "retrieve_file"}
             ELSE {"query_video_status", "retrieve_file", "download",
                   "extract_last_frame"}
  IN /\ IF polled THEN env \in CheckEnvs ELSE env = "none"
     /\ env = "copy_fail" => (s + 1) \in SegIdx
     /\ segs' = MarkGenerated(prop.segs, s)
     /\ files' = prop.files
     /\ last' = Response("check_segment_complete", s, "200", env, ext)
     /\ UNCHANGED <<project, voices, nextTask, inflight>>

\* services/orchestrator_service.py complete_segment_generation
complete_segment_generation(s, video_url) ==
  /\ segs' = [segs EXCEPT ![s].video_url = video_url,
                          ![s].status = "generated"]
  /\ last' = Response("complete_segment_generation", s, "200", "none", {})
  /\ UNCHANGED <<project, voices, files, nextTask, inflight>>

\* ---------------------------------------------------------------- finalization
AdjustedPath(s) == <<"storage/temp", "adjusted_muxed", s>>
ConcatListPath == <<"storage/temp", "concat_list", 0>>

\* services/media_service.py finalize_project_video, the loop of lines
\* 119-149 from segment i on.  acc: the contributions so far (paths), the
\* muxed files to clean up (temp), the files, and the error that ended it.
RECURSIVE FinalizeLoop(_, _, _, _)
FinalizeLoop(ss, i, env, acc) ==
  IF i \notin SegIdx \/ acc.err # "none" THEN acc
  ELSE
    LET seg == ss[i]
        video_path == url_to_file_path(seg.video_url)
        audio_path == url_to_file_path(seg.audio_url)
        muxed == MuxedPath(i)
        \* integrations/ffmpeg_wrapper.py mux_segment_video_audio
        adjusted == WriteFile(acc.fs, AdjustedPath(i), acc.fs[audio_path])
        muxedFs == RemoveFiles(
                     WriteFile(adjusted, muxed,
                               <<"muxed", acc.fs[video_path], acc.fs[audio_path]>>),
                     {AdjustedPath(i)})
    IN IF seg.video_url = NULL THEN FinalizeLoop(ss, i + 1, env, acc)
       ELSE IF video_path \notin DOMAIN acc.fs
       THEN [acc EXCEPT !.err = "video_missing", !.at = i + 1]
       ELSE IF seg.audio_url = NULL
       THEN FinalizeLoop(ss, i + 1, env,
                         [acc EXCEPT !.paths = Append(@, video_path)])
       ELSE IF audio_path \notin DOMAIN acc.fs
       THEN [acc EXCEPT !.err = "audio_missing", !.at = i + 1]
       ELSE IF env = "mux_fail"
       THEN [acc EXCEPT !.err = "mux_fail", !.at = i + 1, !.fs = adjusted]
       ELSE FinalizeLoop(ss, i + 1, env,
                         [acc EXCEPT !.paths = Append(@, muxed),
                                     !.temp = @ \cup {muxed},
                                     !.fs = muxedFs])

\* services/media_service.py finalize_project_video: the loop, the
\* concatenation (integrations/ffmpeg_wrapper.py concat_videos) and the
\* clean-up of the finally block.
finalize_project_video(ss, fs, env) ==
  LET acc == FinalizeLoop(ss, 0, env,
                          [paths |-> <<>>, temp |-> {}, fs |-> fs,
                           err |-> "none", at |-> 0])
      listed == WriteFile(acc.fs, ConcatListPath, acc.paths)
      final == [k \in 1 .. Len(acc.paths) |-> acc.fs[acc.paths[k]]]
      r == IF acc.err # "none" THEN acc
           ELSE IF acc.paths = <<>> THEN [acc EXCEPT !.err = "no_segments"]
           ELSE IF env = "concat_fail"
           THEN [acc EXCEPT !.err = "concat_fail", !.fs = listed]
           ELSE [acc EXCEPT !.fs = WriteFile(acc.fs, FinalPath, final)]
  IN [r EXCEPT !.fs = RemoveFiles(r.fs, r.temp)]

HasMux(ss) == \E i \in SegIdx : ss[i].video_url # NULL /\ ss[i].audio_url # NULL

\* services/project_service.py finalize_project, line 276: every segment is
\* SEGMENT_APPROVED.
AllSegmentsApproved(ss) ==
  \A i \in SegIdx : ss[i].status = "segment_approved"

\* Mutant: finalize_project that marks the project FINALIZING, committed,
\* before it checks the segments.
finalize_project_marks_first(env) ==
  /\ project' = [project EXCEPT !.status = "finalizing"]
  /\ last' = Response("finalize_project", -1, "400", "not_approved", {})
  /\ UNCHANGED <<segs, voices, files, nextTask, inflight>>

\* services/project_service.py finalize_project with its caller
\* api/v1/projects.py finalize_project.  env: "mux_fail", "concat_fail", "ok".
finalize_project(env) ==
  IF ~AllSegmentsApproved(segs)
  THEN /\ last' = Response("finalize_project", -1, "400", "not_approved", {})
       /\ UNCHANGED <<project, segs, voices, files, nextTask, inflight>>
  ELSE
    LET before == Rows(project, segs)
        p1 == [project EXCEPT !.status = "finalizing"]
        r == finalize_project_video(segs, files, env)
        raised == r.err # "none"
        p2 == [p1 EXCEPT !.final_video_url = FinalUrl, !.status = "completed"]
        rows == get_db_session(raised, before, Rows(p2, segs))
    IN /\ env = "mux_fail" => HasMux(segs)
       /\ project' = rows.project
       /\ segs' = rows.segs
       /\ files' = r.fs
       /\ last' = Response("finalize_project", r.at - 1,
                           IF ~raised THEN "200"
                           ELSE IF r.err \in {"mux_fail", "concat_fail"}
                           THEN "500" ELSE "400",
                           IF raised THEN r.err ELSE env, {"ffmpeg"})
       /\ UNCHANGED <<voices, nextTask, inflight>>

\* ------------------------------------------------------ duration adjustment
\* Durations are hundredths of a second.  ffprobe prints a decimal number and
\* probe_duration parses it with float(): the double nearest to c/100.  For
\* 4 <= c/100 < 8 doubles are the multiples of 2^-50, and 0.1 lies where they
\* are the multiples of 2^-56.
Centi == 100
DoubleUlpExp == 50
TenthUlpExp == 56
CloseEnough == 10       \* the 0.1 of adjust_audio_duration, in hundredths

RECURSIVE PowMod(_, _, _)
PowMod(b, e, m) == IF e = 0 THEN 1 % m ELSE (b * PowMod(b, e - 1, m)) % m

\* float(c/100) - c/100 in units of 1/(100 * 2^exp): round to nearest, ties to
\* the even multiple.
RoundErrAt(c, exp) ==
  LET r == (c * PowMod(2, exp, Centi)) % Centi
      quotientOdd == ((c * PowMod(2, exp, 2 * Centi)) % (2 * Centi)) >= Centi
  IN IF 2 * r < Centi THEN 0 - r
     ELSE IF 2 * r > Centi THEN Centi - r
     ELSE IF quotientOdd THEN Centi - r ELSE 0 - r

\* integrations/ffmpeg_wrapper.py adjust_audio_duration, line 322:
\* abs(current_duration - target_duration) < 0.1 in double arithmetic.  The
\* subtraction of two doubles of [4, 8) is exact, so the difference is
\* (a - v)/100 plus the difference of the two rounding errors, compared with
\* the double nearest to 0.1.
FloatCloseEnough(a, v) ==
  LET d == IF a > v THEN a - v ELSE v - a
      e == IF a > v THEN RoundErrAt(a, DoubleUlpExp) - RoundErrAt(v, DoubleUlpExp)
           ELSE RoundErrAt(v, DoubleUlpExp) - RoundErrAt(a, DoubleUlpExp)
  IN IF d < CloseEnough THEN TRUE
     ELSE IF d > CloseEnough THEN FALSE
     ELSE e * 2 ^ (TenthUlpExp - DoubleUlpExp)
            < RoundErrAt(CloseEnough, TenthUlpExp)

\* integrations/ffmpeg_wrapper.py adjust_audio_duration: the duration of the
\* audio written to output_path (copy, trim with -t, or apad and -t).
adjust_audio_duration(current_duration, target_duration) ==
  IF FloatCloseEnough(current_duration, target_duration) THEN current_duration
  ELSE IF current_duration > target_duration THEN target_duration
  ELSE target_duration

VideoDurations ==
  (MinSegmentLen * Centi - VideoJitter) .. (MinSegmentLen * Centi + VideoJitter)
AudioDurations ==
  (MinSegmentLen * Centi - MaxSkew) .. (MinSegmentLen * Centi + MaxSkew)

\* A segment whose video and audio are stored, with their durations.
InitDuration ==
  /\ project = NewProject
  /\ segs = [i \in SegIdx |->
               [NewSegment EXCEPT !.video_url = VideoUrl(i),
                                  !.audio_url = AudioUrl(i)]]
  /\ voices = {}
  /\ \E a \in AudioDurations, v \in VideoDurations :
       files = [path \in {url_to_file_path(VideoUrl(0)),
                          url_to_file_path(AudioUrl(0))} |->
                  IF path = url_to_file_path(VideoUrl(0))
                  THEN [kind |-> "video", duration |-> v]
                  ELSE [kind |-> "audio", duration |-> a]]
  /\ nextTask = 0
  /\ inflight = {}
  /\ last = Response("create_project", -1, "201", "none", {})

\* integrations/ffmpeg_wrapper.py mux_segment_video_audio: the audio is
\* adjusted to the probed duration of the video and muxed with it; the
\* adjusted audio is removed.
mux_segment_video_audio(s) ==
  LET video == files[url_to_file_path(segs[s].video_url)]
      audio == files[url_to_file_path(segs[s].audio_url)]
      adjusted == adjust_audio_duration(audio.duration, video.duration)
  IN /\ url_to_file_path(segs[s].video_url) \in DOMAIN files
     /\ url_to_file_path(segs[s].audio_url) \in DOMAIN files
     /\ files' = WriteFile(files, MuxedPath(s),
                           [kind |-> "muxed", duration |-> video.duration,
                            audio_duration |-> adjusted])
     /\ last' = Response("mux_segment_video_audio", s, "ok", "none", {"ffmpeg"})
     /\ UNCHANGED <<project, segs, voices, nextTask, inflight>>

\* -------------------------------------------------------------- ownership
\* The id a request addresses: a row of the caller ("own"), a row of another
\* user ("foreign"), or no row at all ("missing").
AddressedIds == {"own", "foreign", "missing"}
RowExists(id) == id # "missing"
OwnedByCaller(id) == id = "own"

HTTPError(code, detail) == [out |-> code, detail |-> detail]
Granted == [out |-> "granted", detail |-> ""]

\* api/v1/segments.py verify_segment_ownership
verify_segment_ownership(id) ==
  IF ~RowExists(id) THEN HTTPError("404", "Segment not found")
  ELSE IF ~OwnedByCaller(id) THEN HTTPError("404", "Segment not found")
  ELSE Granted

\* services/orchestrator_service.py generate_video_plan and clone_voice,
\* lines 99-104 and 196-201: one query on id and user_id; the ValueError
\* becomes a 400 in api/v1/generation.py.
OrchestratorProjectLookup(id) ==
  IF ~(RowExists(id) /\ OwnedByCaller(id))
  THEN HTTPError("400", "Project not found")
  ELSE Granted

\* services/orchestrator_service.py start_segment_generation, lines 278-294:
\* the segment by id, then its project by id and user_id.
DispatchLookup(id) ==
  IF ~RowExists(id) THEN HTTPError("400", "Segment not found")
  ELSE IF ~OwnedByCaller(id)
  THEN HTTPError("400", "Project not found or not owned by user")
  ELSE Granted

\* services/project_service.py get_project returns None; api/v1/projects.py
\* finalize_project answers 404.
FinalizeLookup(id) ==
  IF ~(RowExists(id) /\ OwnedByCaller(id))
  THEN HTTPError("404", "Project not found")
  ELSE Granted

WorkflowOps ==
  {"generate_video_plan", "clone_voice", "start_segment_generation",
   "check_segment_complete", "approve_segment", "approve_generated_video",
   "request_regenerate", "finalize_project"}

\* The ownership check each workflow operation starts with.
Lookup(op, id) ==
  IF op \in {"generate_video_plan", "clone_voice"}
  THEN OrchestratorProjectLookup(id)
  ELSE IF op = "start_segment_generation" THEN DispatchLookup(id)
  ELSE IF op = "finalize_project" THEN FinalizeLookup(id)
  ELSE verify_segment_ownership(id)

\* A workflow request for an id that is not a row of the caller: the
\* ownership check raises before anything is read or written.  (The other
\* actions are the requests of the owner for the project and its segments.)
denied_request(op, id) ==
  /\ Lookup(op, id) # Granted
  /\ last' = Response(op, -1, Lookup(op, id).out, id, {})
               @@ [detail |-> Lookup(op, id).detail]
  /\ UNCHANGED <<project, segs, voices, files, nextTask, inflight>>

\* ------------------------------------------------------------ specifications
ProjectOps ==
  \/ upload_first_frame
  \/ upload_audio_sample
  \/ \E env \in {"raise", "invalid"} : generate_video_plan(env, <<>>)
  \/ \E plan \in PlanLists : generate_video_plan("plan", plan)
  \/ \E readable, recommit \in BOOLEAN :
       \E env \in {"upload_fail", "clone_fail", "ok"} :
         clone_voice(readable, env, recommit)
  \/ \E env \in {"mux_fail", "concat_fail", "ok"} : finalize_project(env)

SegmentOps ==
  \/ \E s \in SegIdx : approve_segment(s)
  \/ \E s \in SegIdx, env \in {"video_fail", "tts_fail", "ok"} :
       start_segment_generation(s, env)
  \/ \E s \in SegIdx : approve_generated_video(s)
  \/ \E s \in SegIdx : request_regenerate(s)

\* The workflow of the HTTP API: completion is polled (check_segment_complete).
Next ==
  \/ ProjectOps
  \/ SegmentOps
  \/ \E s \in SegIdx, env \in CheckEnvs \cup {"none"} :
       check_segment_complete(s, env)

Spec == Init /\ [][Next]_vars

\* The workflow driven through OrchestratorService: completion is reported
\* with complete_segment_generation instead of being polled.
NextPush ==
  \/ ProjectOps
  \/ SegmentOps
  \/ \E s \in SegIdx : complete_segment_generation(s, VideoUrl(s))

SpecPush == Init /\ [][NextPush]_vars

\* Planning of a project whose durations are edited: update_project, plan
\* generation with every shape of plan, prompt approval.
NextPlan ==
  \/ \E story \in {NULL, EditedStory} :
       \E target \in TargetDurations \cup {NotGiven} :
         \E len \in SegmentLens \cup {NotGiven} :
           update_project(story, target, len)
  \/ \E env \in {"raise", "invalid"} : generate_video_plan(env, <<>>)
  \/ \E plan \in PlanShapes : generate_video_plan("plan", plan)
  \/ \E s \in SegIdx : approve_segment(s)

SpecPlan == Init /\ [][NextPlan]_vars

\* The owner plans and approves while requests arrive for ids that are not
\* rows of their caller.
NextAccess ==
  \/ \E op \in WorkflowOps, id \in AddressedIds : denied_request(op, id)
  \/ upload_first_frame
  \/ \E plan \in PlanLists : generate_video_plan("plan", plan)
  \/ \E s \in SegIdx : approve_segment(s)
  \/ \E s \in SegIdx : request_regenerate(s)

SpecAccess == Init /\ [][NextAccess]_vars

\* A caller that plans once, dispatches every approved segment once and then
\* only polls: no regenerate, no second dispatch.
first_plan(plan) ==
  /\ \A s \in SegIdx : segs[s].status = "pending"
  /\ generate_video_plan("plan", plan)

dispatch_once(s, env) ==
  /\ segs[s].status = "approved"
  /\ start_segment_generation(s, env)

NextPoll ==
  \/ upload_first_frame
  \/ upload_audio_sample
  \/ clone_voice(TRUE, "ok", TRUE)
  \/ \E plan \in PlanLists : first_plan(plan)
  \/ \E s \in SegIdx : approve_segment(s)
  \/ \E s \in SegIdx, env \in {"tts_fail", "ok"} : dispatch_once(s, env)
  \/ \E s \in SegIdx, env \in {"processing", "ok", "none"} :
       check_segment_complete(s, env)

\* The external task eventually succeeds and the caller keeps polling: the
\* check that finds the video ready (or finds it stored already) is taken
\* whenever it stays possible.
PollFairness ==
  \A s \in SegIdx :
    WF_vars(\E env \in {"ok", "none"} : check_segment_complete(s, env))

SpecPoll == Init /\ [][NextPoll]_vars /\ PollFairness

\* The muxing of one segment, for every pair of durations of the grid.
NextDuration == \E s \in SegIdx : mux_segment_video_audio(s)

SpecDuration == InitDuration /\ [][NextDuration]_vars

\* The way to the final video: media, voice, plan, approval, dispatch, and
\* completion both polled and reported, so that segments with and without
\* audio, and segments whose video was never stored, reach finalization.
NextFinal ==
  \/ upload_first_frame
  \/ upload_audio_sample
  \/ clone_voice(TRUE, "ok", TRUE)
  \/ \E plan \in PlanLists : generate_video_plan("plan", plan)
  \/ \E s \in SegIdx : approve_segment(s)
  \/ \E s \in SegIdx, env \in {"tts_fail", "ok"} :
       start_segment_generation(s, env)
  \/ \E s \in SegIdx, env \in {"ok", "none"} : check_segment_complete(s, env)
  \/ \E s \in SegIdx : complete_segment_generation(s, VideoUrl(s))
  \/ \E s \in SegIdx : approve_generated_video(s)
  \/ \E env \in {"mux_fail", "concat_fail", "ok"} : finalize_project(env)

SpecFinal == Init /\ [][NextFinal]_vars

\* ------------------------------------------------------ overlapping requests
\* A handler runs until it awaits; while it is suspended the event loop runs
\* other requests, each with a session of its own.  inflight holds, for every
\* suspended request, the operation, the segment, the await it is at and
\* what its session or its local variables hold.
Suspended(op) == {r \in inflight : r.op = op}

\* Mutant: a flush that leaves a row alone when it was changed and committed
\* by another session after this session loaded it.
FlushChanged_refuses_stale(current, loaded, assigned) ==
  IF current # loaded THEN current
  ELSE [f \in DOMAIN current |->
          IF assigned[f] # loaded[f] THEN assigned[f] ELSE current[f]]

\* db/session.py get_db_session, the commit of a session whose object was
\* loaded earlier (expire_on_commit=False, no refresh, no version column):
\* the UPDATE sets the attributes the handler assigned a new value to and
\* leaves the other columns of the row as they are committed now.
FlushChanged(current, loaded, assigned) ==
  [f \in DOMAIN current |->
     IF assigned[f] # loaded[f] THEN assigned[f] ELSE current[f]]

\* api/v1/segments.py check_segment_complete up to the await of line 203:
\* the row is loaded by verify_segment_ownership, the segment is polled and
\* the handler waits for the provider.
check_segment_complete_begin(s) ==
  /\ \A r \in Suspended("check_segment_complete") : r.seg # s
  /\ Polled(segs[s])
  /\ inflight' = inflight \cup
       {[op |-> "check_segment_complete", seg |-> s,
         at |-> "query_video_status", held |-> segs[s]]}
  /\ UNCHANGED <<project, segs, voices, files, nextTask, last>>

\* api/v1/segments.py check_segment_complete from line 203 to the commit of
\* its session: the handler goes on with the object it loaded; the next
\* segment is read when the frame is propagated.
check_segment_complete_end(s, env) ==
  \E r \in Suspended("check_segment_complete") :
    LET session == [segs EXCEPT ![s] = r.held]
        stored == env \in {"extract_fail", "copy_fail", "ok"}
        fs1 == IF stored
               THEN WriteFile(files, url_to_file_path(VideoUrl(s)),
                              <<"video", r.held.video_task_id>>)
               ELSE files
        s1 == IF stored THEN [session EXCEPT ![s].video_url = VideoUrl(s)]
              ELSE session
        prop == IF stored
                THEN _extract_and_propagate_last_frame(s1, fs1, s, env)
                ELSE [segs |-> s1, files |-> fs1]
        assigned == MarkGenerated(prop.segs, s)
        ext == IF env \in {"processing", "fail", "query_raise"}
               THEN {"query_video_status"}
               ELSE IF env = "download_raise"
               THEN {"query_video_status", "retrieve_file"}
               ELSE {"query_video_status", "retrieve_file", "download",
                     "extract_last_frame"}
    IN /\ r.seg = s
       /\ env \in CheckEnvs
       /\ env = "copy_fail" => (s + 1) \in SegIdx
       /\ segs' = [i \in SegIdx |->
                     FlushChanged(segs[i], session[i], assigned[i])]
       /\ files' = prop.files
       /\ last' = Response("check_segment_complete", s, "200", env, ext)
       /\ inflight' = inflight \ {r}
       /\ UNCHANGED <<project, voices, nextTask>>

\* Polling that overlaps the caller's other requests on the same segment.
NextRace ==
  \/ upload_first_frame
  \/ upload_audio_sample
  \/ clone_voice(TRUE, "ok", TRUE)
  \/ \E plan \in PlanLists : first_plan(plan)
  \/ \E s \in SegIdx : approve_segment(s)
  \/ \E s \in SegIdx, env \in {"tts_fail", "ok"} : dispatch_once(s, env)
  \/ \E s \in SegIdx : check_segment_complete_begin(s)
  \/ \E s \in SegIdx, env \in CheckEnvs : check_segment_complete_end(s, env)
  \/ \E s \in SegIdx : request_regenerate(s)
  \/ \E s \in SegIdx : approve_generated_video(s)

SpecRace == Init /\ [][NextRace]_vars

\* Finalization suspended inside concat_videos.  Another project's
\* finalization uses the same storage and the same list file.
\* A segment of the other project: its id is none of this project's.
OtherSegment == NumSegments
OtherMuxedPath == MuxedPath(OtherSegment)
OtherContribution == <<"muxed", "other">>

\* services/project_service.py finalize_project up to the await of
\* concat_videos (ffmpeg_wrapper.py line 165): the precondition, the mux loop
\* and the list file are done; a finalization that ends before concat_videos
\* is the whole handler.
finalize_project_begin ==
  LET acc == FinalizeLoop(segs, 0, "ok",
                          [paths |-> <<>>, temp |-> {}, fs |-> files,
                           err |-> "none", at |-> 0])
  IN /\ Suspended("finalize_project") = {}
     /\ IF ~AllSegmentsApproved(segs) \/ acc.err # "none" \/ acc.paths = <<>>
        THEN finalize_project("ok")
        ELSE /\ files' = WriteFile(acc.fs, ConcatListPath, acc.paths)
             /\ inflight' = inflight \cup
                  {[op |-> "finalize_project", seg |-> -1, at |-> "concat",
                    held |-> [paths |-> acc.paths, temp |-> acc.temp]]}
             /\ UNCHANGED <<project, segs, voices, nextTask, last>>

\* integrations/ffmpeg_wrapper.py concat_videos, the ffmpeg command running in
\* the executor: it reads the list file as it is when the command opens it.
\* A missing list or a missing listed file makes the command fail, the
\* exception ends the request (clean-up of the finally block, rollback).
finalize_project_concat ==
  \E r \in Suspended("finalize_project") :
    LET readable == /\ ConcatListPath \in DOMAIN files
                    /\ \A k \in 1 .. Len(files[ConcatListPath]) :
                         files[ConcatListPath][k] \in DOMAIN files
        listed == files[ConcatListPath]
        final == [k \in 1 .. Len(listed) |-> files[listed[k]]]
    IN /\ r.at = "concat"
       /\ IF readable
          THEN /\ files' = WriteFile(files, FinalPath, final)
               /\ inflight' = (inflight \ {r}) \cup {[r EXCEPT !.at = "unlink"]}
               /\ UNCHANGED last
          ELSE /\ files' = RemoveFiles(files, r.held.temp)
               /\ inflight' = inflight \ {r}
               /\ last' = Response("finalize_project", -1, "500",
                                   "concat_fail", {"ffmpeg"})
       /\ UNCHANGED <<project, segs, voices, nextTask>>

\* concat_videos line 166 (list_file.unlink()) to the commit of the request:
\* the unlink of a list that is gone raises FileNotFoundError.
finalize_project_end ==
  \E r \in Suspended("finalize_project") :
    LET raised == ConcatListPath \notin DOMAIN files
        p2 == [project EXCEPT !.final_video_url = FinalUrl,
                              !.status = "completed"]
        rows == get_db_session(raised, Rows(project, segs), Rows(p2, segs))
    IN /\ r.at = "unlink"
       /\ project' = rows.project
       /\ segs' = rows.segs
       /\ files' = RemoveFiles(files, r.held.temp \cup {ConcatListPath})
       /\ inflight' = inflight \ {r}
       /\ last' = Response("finalize_project", -1,
                           IF raised THEN "500" ELSE "200",
                           IF raised THEN "unlink_fail" ELSE "ok", {"ffmpeg"})
       /\ UNCHANGED <<voices, nextTask>>

\* The finalization of another project, seen from this project's storage:
\* concat_videos writes its list to the same path (lines 146-149) ...
other_concat_begin ==
  /\ Suspended("other_finalize") = {}
  /\ files' = WriteFile(WriteFile(files, OtherMuxedPath, OtherContribution),
                        ConcatListPath, <<OtherMuxedPath>>)
  /\ inflight' = inflight \cup
       {[op |-> "other_finalize", seg |-> -1, at |-> "concat",
         held |-> [paths |-> <<OtherMuxedPath>>, temp |-> {OtherMuxedPath}]]}
  /\ UNCHANGED <<project, segs, voices, nextTask, last>>

\* ... and removes it when its command returned (line 166); its muxed files
\* are removed by its finally block.
other_concat_end ==
  \E r \in Suspended("other_finalize") :
    /\ files' = RemoveFiles(files, r.held.temp \cup {ConcatListPath})
    /\ inflight' = inflight \ {r}
    /\ UNCHANGED <<project, segs, voices, nextTask, last>>

\* The way to the final video while another project is finalized.
NextConcat ==
  \/ upload_first_frame
  \/ upload_audio_sample
  \/ clone_voice(TRUE, "ok", TRUE)
  \/ \E plan \in PlanLists : first_plan(plan)
  \/ \E s \in SegIdx : approve_segment(s)
  \/ \E s \in SegIdx, env \in {"tts_fail", "ok"} : dispatch_once(s, env)
  \/ \E s \in SegIdx, env \in {"ok", "none"} : check_segment_complete(s, env)
  \/ \E s \in SegIdx : approve_generated_video(s)
  \/ finalize_project_begin
  \/ finalize_project_concat
  \/ finalize_project_end
  \/ other_concat_begin
  \/ other_concat_end

SpecConcat == Init /\ [][NextConcat]_vars

\* ------------------------------------------------------------------- claims
InStatus(s, set) == segs[s].status \in set

\* C1: in a project with an assigned voice, a segment is GENERATED only if
\* its generated-video and its generated-audio reference are both non-null;
\* no operation marks it GENERATED with only one of the two.
C1_GeneratedNeedsVideoAndAudio ==
  project.voice_id # NULL =>
    \A s \in SegIdx :
      segs[s].status = "generated" =>
        segs[s].video_url # NULL /\ segs[s].audio_url # NULL

\* C2: in a project without a voice, the completion check that obtains the
\* rendered video sets the video reference, propagates the last frame and
\* moves the GENERATING segment to GENERATED in that same check.
C2_NoVoiceVideoSuffices ==
  (last.op = "check_segment_complete" /\ last.env = "ok"
     /\ project.voice_id = NULL) =>
    /\ segs[last.seg].video_url # NULL
    /\ segs[last.seg].last_frame_url # NULL
    /\ segs[last.seg].status = "generated"

ApprovedStatuses == {"approved", "generating", "generated", "segment_approved"}

\* C3: a segment's approved flag is true if and only if its status is one
\* of APPROVED, GENERATING, GENERATED, SEGMENT_APPROVED.
C3_ApprovedIffStatus ==
  \A s \in SegIdx : segs[s].approved <=> InStatus(s, ApprovedStatuses)

\* C4: approving the prompt of a segment that is not PROMPT_READY, or the
\* video of a segment that is not GENERATED, fails and leaves status and
\* approved flag unchanged; from the required status the segment moves to
\* APPROVED with approved = true, respectively to SEGMENT_APPROVED.
C4_ApprovalGuards ==
  [][ /\ last'.op = "approve_segment" =>
           IF segs[last'.seg].status # "prompt_ready"
           THEN last'.out = "400" /\ segs' = segs
           ELSE /\ last'.out = "200"
                /\ segs'[last'.seg].status = "approved"
                /\ segs'[last'.seg].approved
      /\ last'.op = "approve_generated_video" =>
           IF segs[last'.seg].status # "generated"
           THEN last'.out = "400" /\ segs' = segs
           ELSE /\ last'.out = "200"
                /\ segs'[last'.seg].status = "segment_approved"
                /\ segs'[last'.seg].approved = segs[last'.seg].approved
    ]_vars

\* An approved, already GENERATING segment whose prompt approval was rejected.
C4_Witness ==
  /\ last.op = "approve_segment"
  /\ last.out = "400"
  /\ segs[last.seg].status = "generating"

\* C5: finalizing a project in which some segment is not SEGMENT_APPROVED
\* fails and changes no Project field, no Segment field and no file.
C5_FinalizeRejected ==
  [][ (last'.op = "finalize_project"
         /\ \E i \in SegIdx : segs[i].status # "segment_approved") =>
        /\ last'.out = "400"
        /\ project' = project
        /\ segs' = segs
        /\ files' = files
    ]_vars

\* A rejected finalization of a project in which one segment is
\* SEGMENT_APPROVED and another is not.
C5_Witness ==
  /\ last.op = "finalize_project"
  /\ last.out = "400"
  /\ \E i, j \in SegIdx :
       segs[i].status = "segment_approved" /\ segs[j].status = "generated"

FileOf(url) == files[url_to_file_path(url)]

\* C6: after segment N's video became available and frame propagation ran
\* successfully, N's last-frame reference is set and, when segment N+1
\* exists, its first-frame reference points to an image with the content of
\* N's extracted last frame; when N is the last index no other segment is
\* modified and no error is raised.
C6_FramePropagation ==
  [][ (last'.op = "check_segment_complete" /\ last'.env = "ok") =>
        LET n == last'.seg
        IN /\ last'.out = "200"
           /\ segs'[n].last_frame_url # NULL
           /\ url_to_file_path(segs'[n].last_frame_url) \in DOMAIN files'
           /\ files'[url_to_file_path(segs'[n].last_frame_url)]
                = <<"frame", files'[url_to_file_path(segs'[n].video_url)]>>
           /\ (n + 1) \in SegIdx =>
                /\ segs'[n + 1].first_frame_url # NULL
                /\ url_to_file_path(segs'[n + 1].first_frame_url) \in DOMAIN files'
                /\ files'[url_to_file_path(segs'[n + 1].first_frame_url)]
                     = files'[url_to_file_path(segs'[n].last_frame_url)]
           /\ (n + 1) \notin SegIdx =>
                \A i \in SegIdx \ {n} : segs'[i] = segs[i]
    ]_vars

\* Segment 0's second video has been stored and its frame copied to segment 1.
C6_Witness ==
  /\ last.op = "check_segment_complete"
  /\ last.env = "ok"
  /\ last.seg = 0
  /\ segs[1].first_frame_url = FirstFrameUrl(1)
  /\ FileOf(FirstFrameUrl(1)) = <<"frame", <<"video", 2>>>>

C8_DispatchRejected ==
  [][ (last'.op = "start_segment_generation"
         /\ (~segs[last'.seg].approved
               \/ (segs[last'.seg].first_frame_url = NULL
                     /\ project.first_frame_url = NULL))) =>
        /\ last'.out = "400"
        /\ last'.ext = {}
        /\ segs' = segs
        /\ project' = project
        /\ files' = files
        /\ nextTask' = nextTask
    ]_vars

\* An approved segment in a plan-ready project without any first frame was
\* dispatched and rejected.
C8_Witness ==
  /\ last.op = "start_segment_generation"
  /\ last.out = "400"
  /\ last.env = "no_first_frame"
  /\ segs[last.seg].approved
  /\ segs[last.seg].status = "approved"
  /\ project.status = "plan_ready"

\* C9: when the plan capability raises or returns an unusable result, plan
\* generation commits nothing: project status (never PLAN_GENERATING) and
\* story prompt are what they were, and no segment has changed.
C9_PlanFailureCommitsNothing ==
  /\ [](project.status # "plan_generating")
  /\ [][ (last'.op = "generate_video_plan"
            /\ last'.env \in {"raise", "invalid"}) =>
           /\ last'.out # "200"
           /\ project' = project
           /\ segs' = segs
       ]_vars

\* The first plan generation of a project failed: no story prompt is stored.
C9_Witness ==
  /\ last.op = "generate_video_plan"
  /\ last.env = "raise"
  /\ project.story_prompt = NULL
  /\ project.status = "media_uploaded"

\* C10: after a voice-cloning call ends, successfully or not, the project's
\* status is the status it had immediately before the call.
C10_CloneRestoresStatus ==
  [][ last'.op = "clone_voice" => project'.status = project.status ]_vars

\* C11: in every state after creation, also after update_project changed a
\* duration, segment_count is floor(target_duration / segment_duration) and
\* the project owns exactly segment_count segments, with the indices
\* 0 .. segment_count-1.
C11_SegmentCountMatchesSegments ==
  /\ project.segment_count
       = project.target_duration_sec \div project.segment_len_sec
  /\ DOMAIN segs = 0 .. (project.segment_count - 1)

\* C12: after a successful plan generation with plan list P, every segment
\* i < min(|P|, |S|) carries the video prompt, narration text and end-frame
\* prompt of P[i] (by position, whatever the entry's own segment_index) and
\* is PROMPT_READY; the segments from index |P| on are unchanged; the project
\* is PLAN_READY.
C12_PlanZippedByPosition ==
  [][ (last'.op = "generate_video_plan" /\ last'.out = "200") =>
        LET P == last'.segments
        IN /\ \A i \in DOMAIN segs :
                IF i < Min(Len(P), Cardinality(DOMAIN segs))
                THEN /\ segs'[i].video_prompt = P[i + 1].video_prompt
                     /\ segs'[i].narration_text = P[i + 1].narration_text
                     /\ segs'[i].end_frame_prompt = P[i + 1].end_frame_prompt
                     /\ segs'[i].status = "prompt_ready"
                     /\ segs'[i] = [segs[i] EXCEPT
                                      !.video_prompt = P[i + 1].video_prompt,
                                      !.narration_text = P[i + 1].narration_text,
                                      !.end_frame_prompt = P[i + 1].end_frame_prompt,
                                      !.status = "prompt_ready"]
                ELSE segs'[i] = segs[i]
           /\ project'.status = "plan_ready"
    ]_vars

\* A plan shorter than the project, whose only entry names another segment
\* than its position, was applied over an approved plan: segment 0 carries
\* that entry, the last segment is still APPROVED.
C12_Witness ==
  /\ last.op = "generate_video_plan"
  /\ last.out = "200"
  /\ Len(last.segments) = NumSegments - 1
  /\ last.segments[1].segment_index # 0
  /\ segs[0].video_prompt = last.segments[1].video_prompt
  /\ segs[0].status = "prompt_ready"
  /\ segs[NumSegments - 1].status = "approved"

\* C13: a completion check on a segment that is already GENERATED makes no
\* external status-query, download or frame-extraction call, changes no
\* field of any segment and no file, and returns the segment GENERATED.
C13_CheckIdempotentOnGenerated ==
  [][ (last'.op = "check_segment_complete"
         /\ segs[last'.seg].status = "generated") =>
        /\ last'.ext = {}
        /\ last'.out = "200"
        /\ segs' = segs
        /\ files' = files
        /\ segs'[last'.seg].status = "generated"
    ]_vars

\* A segment that an earlier check stored the video of and marked GENERATED
\* (its video is the one of its current task) was checked again.
C13_Witness ==
  /\ last.op = "check_segment_complete"
  /\ last.env = "none"
  /\ segs[last.seg].status = "generated"
  /\ segs[last.seg].video_task_id # NoTask
  /\ FileOf(segs[last.seg].video_url) = <<"video", segs[last.seg].video_task_id>>

\* C14: when a completion check on a GENERATING segment finds the external
\* task still processing, no field of the segment changes; when the task
\* failed, or the query or the download raises, the segment is not marked
\* GENERATED and its video reference stays null.
C14_CheckWithoutVideo ==
  [][ (last'.op = "check_segment_complete"
         /\ segs[last'.seg].status = "generating") =>
        /\ last'.env = "processing" => segs'[last'.seg] = segs[last'.seg]
        /\ last'.env \in {"fail", "query_raise", "download_raise"} =>
             /\ segs'[last'.seg].status # "generated"
             /\ segs'[last'.seg].video_url = NULL
    ]_vars

\* The task of a GENERATING segment whose audio is already there has failed.
C14_Witness ==
  /\ last.op = "check_segment_complete"
  /\ last.env = "fail"
  /\ segs[last.seg].status = "generating"
  /\ segs[last.seg].audio_url # NULL
  /\ segs[last.seg].video_url = NULL

\* C15: when text-to-speech fails in a dispatch whose video task was
\* created, the dispatch succeeds: the segment is GENERATING with the new
\* task handle recorded, the project is GENERATING, and the segment's audio
\* reference is what it was.
C15_TtsFailureKeepsDispatch ==
  [][ (last'.op = "start_segment_generation" /\ last'.env = "tts_fail") =>
        /\ last'.out = "200"
        /\ "generate_video" \in last'.ext
        /\ segs'[last'.seg].status = "generating"
        /\ segs'[last'.seg].video_task_id = nextTask'
        /\ nextTask' = nextTask + 1
        /\ project'.status = "generating"
        /\ segs'[last'.seg].audio_url = segs[last'.seg].audio_url
    ]_vars

\* The second dispatch of a segment lost its text-to-speech call: the segment
\* has the second task handle and still the audio of its first dispatch.
C15_Witness ==
  /\ last.op = "start_segment_generation"
  /\ last.env = "tts_fail"
  /\ segs[last.seg].video_task_id = MaxTasks
  /\ segs[last.seg].audio_url # NULL
  /\ segs[last.seg].status = "generating"

\* What segment i adds to the final video: its video muxed with its audio
\* when it has an audio reference, its raw video otherwise.
Contribution(i) ==
  IF segs[i].audio_url # NULL
  THEN <<"muxed", FileOf(segs[i].video_url), FileOf(segs[i].audio_url)>>
  ELSE FileOf(segs[i].video_url)

\* C16: a successful finalization concatenates exactly one contribution per
\* segment, in ascending index order (muxed file with an audio reference,
\* raw video without), and leaves the project COMPLETED with its final-video
\* reference set.
C16_FinalizeInIndexOrder ==
  [][ (last'.op = "finalize_project" /\ last'.out = "200") =>
        /\ FinalPath \in DOMAIN files'
        /\ files'[FinalPath] = [k \in 1 .. NumSegments |-> Contribution(k - 1)]
        /\ project'.final_video_url = FinalUrl
        /\ url_to_file_path(project'.final_video_url) = FinalPath
        /\ project'.status = "completed"
    ]_vars

\* A final video made of the raw video of segment 0 (no audio) followed by
\* the muxed video and audio of segment 1.
C16_Witness ==
  /\ last.op = "finalize_project"
  /\ last.out = "200"
  /\ project.status = "completed"
  /\ segs[0].audio_url = NULL
  /\ segs[NumSegments - 1].audio_url # NULL
  /\ FinalPath \in DOMAIN files
  /\ files[FinalPath][1] = FileOf(segs[0].video_url)
  /\ files[FinalPath][NumSegments][1] = "muxed"

\* C20: a finalization that fails after its precondition check passed (a
\* file is missing, muxing or concatenation fails) commits nothing: project
\* status (not FINALIZING, not COMPLETED) and final-video reference are what
\* they were; a missing file is reported with the 1-based position of the
\* first segment whose file is missing.
C20_FinalizeFailureCommitsNothing ==
  /\ [](project.status # "finalizing")
  /\ [][ (last'.op = "finalize_project" /\ AllSegmentsApproved(segs)
            /\ last'.out # "200") =>
           /\ last'.env \in {"video_missing", "audio_missing", "mux_fail",
                              "concat_fail"}
           /\ project' = project
           /\ segs' = segs
           /\ last'.env = "video_missing" =>
                LET position == last'.seg + 1
                IN /\ position \in 1 .. NumSegments
                   /\ url_to_file_path(segs[position - 1].video_url)
                        \notin DOMAIN files
                   /\ \A i \in 0 .. (position - 2) :
                        url_to_file_path(segs[i].video_url) \in DOMAIN files
       ]_vars

\* Every segment is SEGMENT_APPROVED, the video of segment 0 is stored, the
\* video of the last segment was reported but never stored: finalization
\* failed naming the last position, and the project is still GENERATING.
C20_Witness ==
  /\ last.op = "finalize_project"
  /\ last.env = "video_missing"
  /\ last.seg + 1 = NumSegments
  /\ AllSegmentsApproved(segs)
  /\ url_to_file_path(segs[0].video_url) \in DOMAIN files
  /\ project.status = "generating"
  /\ project.final_video_url = NULL

\* C17: for every project- or segment-addressed workflow operation, the
\* outcome for an id that exists but belongs to another user is the outcome
\* (error kind and message) for an id that does not exist.
C17_ForeignLikeMissing ==
  last.env = "foreign" =>
    [out |-> last.out, detail |-> last.detail] = Lookup(last.op, "missing")

\* C18: a segment enters GENERATING only from APPROVED: a dispatch of a
\* segment in any other status never makes it GENERATING and never replaces
\* its task handle.
C18_GeneratingOnlyFromApproved ==
  [][ (last'.op = "start_segment_generation"
         /\ segs[last'.seg].status # "approved") =>
        /\ segs'[last'.seg].status = "generating" =>
             segs[last'.seg].status = "generating"
        /\ segs'[last'.seg].video_task_id = segs[last'.seg].video_task_id
    ]_vars

\* C19: plan generation changes a segment's status only from PENDING to
\* PROMPT_READY; a segment that is APPROVED, GENERATING, GENERATED or
\* SEGMENT_APPROVED is never moved back to PROMPT_READY by a re-run.
C19_PlanOnlyPromotesPending ==
  [][ last'.op = "generate_video_plan" =>
        \A s \in SegIdx :
          /\ segs'[s].status # segs[s].status =>
               segs[s].status = "pending" /\ segs'[s].status = "prompt_ready"
          /\ segs[s].status \in ApprovedStatuses =>
               segs'[s].status # "prompt_ready"
    ]_vars

\* C21: when finalize_project_video has ended, by returning or by raising at
\* any step, none of the per-segment temporary files it created (the muxed
\* file and the adjusted audio used to build it) remains on disk.
C21_NoTemporaryFilesRemain ==
  \A s \in SegIdx :
    MuxedPath(s) \notin DOMAIN files /\ AdjustedPath(s) \notin DOMAIN files

\* C22: when the extraction of the last frame fails in a completion check,
\* the next segment's first-frame reference and file are unchanged, the
\* current segment's last-frame reference is unchanged, and the check raises
\* no error.
C22_NoPropagationWithoutExtraction ==
  [][ (last'.op = "check_segment_complete" /\ last'.env = "extract_fail") =>
        LET n == last'.seg
            next_frame_path == url_to_file_path(FirstFrameUrl(n + 1))
        IN /\ last'.out = "200"
           /\ segs'[n].last_frame_url = segs[n].last_frame_url
           /\ (n + 1) \in SegIdx =>
                /\ segs'[n + 1] = segs[n + 1]
                /\ next_frame_path \in DOMAIN files'
                     <=> next_frame_path \in DOMAIN files
                /\ next_frame_path \in DOMAIN files =>
                     files'[next_frame_path] = files[next_frame_path]
    ]_vars

\* The second video of segment 0 was stored but its last frame could not be
\* extracted: segment 1 still has the first frame taken from the first video.
C22_Witness ==
  /\ last.op = "check_segment_complete"
  /\ last.env = "extract_fail"
  /\ last.seg = 0
  /\ FileOf(segs[0].video_url) = <<"video", MaxTasks>>
  /\ segs[1].first_frame_url = FirstFrameUrl(1)
  /\ FileOf(FirstFrameUrl(1)) # <<"frame", <<"video", MaxTasks>>>>

\* C23: generated media files are write-once: no generation attempt
\* overwrites the video or audio file an earlier attempt stored.
C23_MediaFilesWriteOnce ==
  [][ \A path \in DOMAIN files :
        (path[1] = "storage/output" /\ path[2] \in {"video", "audio"}) =>
          path \in DOMAIN files' /\ files'[path] = files[path]
    ]_vars

\* C25: FAILED is reachable for a segment: when the external video task of
\* a GENERATING segment reports terminal failure, the segment is FAILED
\* afterwards.
C25_TaskFailureMarksFailed ==
  [][ (last'.op = "check_segment_complete" /\ last'.env = "fail"
         /\ segs[last'.seg].status = "generating") =>
        segs'[last'.seg].status = "failed"
    ]_vars

\* C28: a COMPLETED project has a final-video reference and all of its
\* segments are SEGMENT_APPROVED, in every reachable state.
C28_CompletedMeansAllApproved ==
  project.status = "completed" =>
    project.final_video_url # NULL /\ AllSegmentsApproved(segs)

\* C29: regenerate changes only the target segment's status, video
\* reference and video-task handle; every other field of it, every other
\* segment, the project and the files are unchanged.
C29_RegenerateFrame ==
  [][ last'.op = "request_regenerate" =>
        LET s == last'.seg
        IN /\ [segs'[s] EXCEPT !.status = segs[s].status,
                               !.video_url = segs[s].video_url,
                               !.video_task_id = segs[s].video_task_id] = segs[s]
           /\ \A i \in SegIdx \ {s} : segs'[i] = segs[i]
           /\ project' = project
           /\ files' = files
           /\ voices' = voices
    ]_vars

\* Segment 0 was regenerated after its video was approved: it keeps its
\* approval, audio and last frame, and segment 1 keeps the propagated frame.
C29_Witness ==
  /\ last.op = "request_regenerate"
  /\ last.seg = 0
  /\ segs[0].approved
  /\ segs[0].status = "approved"
  /\ segs[0].audio_url # NULL
  /\ segs[0].last_frame_url # NULL
  /\ segs[0].video_url = NULL
  /\ segs[1].first_frame_url = FirstFrameUrl(1)

\* C26: for audio of duration a and video of duration v on the grid of
\* hundredths of a second, the adjusted audio has duration exactly v when
\* |a - v| >= 0.1 s and is the original audio (duration a) when
\* |a - v| < 0.1 s.
C26_DurationReconciled ==
  \A s \in SegIdx :
    MuxedPath(s) \in DOMAIN files =>
      LET a == FileOf(segs[s].audio_url).duration
          v == FileOf(segs[s].video_url).duration
          d == IF a > v THEN a - v ELSE v - a
      IN files[MuxedPath(s)].audio_duration
           = IF d >= CloseEnough THEN v ELSE a

\* C27: in a project with a voice, every dispatched segment with narration
\* text whose video task eventually succeeds eventually reaches GENERATED
\* under repeated completion checks alone, whatever the outcome of the
\* text-to-speech call of the dispatch was.
C27_PollingReachesGenerated ==
  \A s \in SegIdx :
    (/\ last.op = "start_segment_generation"
     /\ last.out = "200"
     /\ last.seg = s
     /\ project.voice_id # NULL
     /\ segs[s].narration_text # NULL)
      ~> (segs[s].status = "generated")

\* C24: a completion check that loaded a GENERATING segment and resumes with
\* the video ready after a regenerate of the same segment was committed
\* (APPROVED, video reference and task handle cleared) commits its own writes
\* over it: the segment is GENERATED with the video reference of the check,
\* and the task handle stays cleared as the regenerate left it.
C24_LostUpdate ==
  [][\A r \in Suspended("check_segment_complete") :
       ( /\ r \notin inflight'
         /\ last'.op = "check_segment_complete"
         /\ last'.env = "ok"
         /\ r.held.status = "generating"
         /\ r.held.audio_url # NULL
         /\ segs[r.seg].status = "approved"
         /\ segs[r.seg].video_url = NULL
         /\ segs[r.seg].video_task_id = NoTask )
       => ( /\ segs'[r.seg].status = "generated"
            /\ segs'[r.seg].video_url = VideoUrl(r.seg)
            /\ segs'[r.seg].video_task_id = NoTask )]_vars

C24_Witness ==
  /\ last.op = "check_segment_complete"
  /\ inflight = {}
  /\ \E s \in SegIdx :
       /\ last.seg = s
       /\ segs[s].status = "generated"
       /\ segs[s].video_url # NULL
       /\ segs[s].video_task_id = NoTask

\* C30: a finalization that reached the concatenation while another project
\* is being finalized ends with success, and the final video is the
\* concatenation of this project's own contributions in index order: it
\* neither reads the other project's list nor fails because the list was
\* removed.
C30_ConcurrentFinalizeIsolated ==
  [][ (Suspended("finalize_project") # {}
       /\ {r \in inflight' : r.op = "finalize_project"} = {}) =>
        /\ last'.op = "finalize_project"
        /\ last'.out = "200"
        /\ FinalPath \in DOMAIN files'
        /\ files'[FinalPath] = [k \in 1 .. NumSegments |-> Contribution(k - 1)]
    ]_vars

====
